---- MODULE Spec2Model ----
(***************************************************************************)
(* Model of backend/kernel_manager.py: the JupyterKernelManager that owns  *)
(* one interpreter (km, kc, kernel_id), serialises executions with a lock  *)
(* and restarts the interpreter explicitly or after an in-band exit.       *)
(*                                                                         *)
(* Threads call the three public operations concurrently.  Every access to *)
(* a shared field (self.km, self.kc, self.kernel_id, self._lock) or to the *)
(* interpreter is one step; thread-local statements are folded into the    *)
(* step that precedes them.                                                *)
(*                                                                         *)
(* The interpreter is a black box: an event is produced at the moment the  *)
(* client polls for it.  A kernel serves its requests in submission order; *)
(* a request may stay unanswered for ever (hung or long-running code).     *)
(* Wall-clock time is abstracted to the coarse steps of Durations.         *)
(***************************************************************************)
EXTENDS Integers, Sequences, FiniteSets, TLC

\* ---------------------------------------------------------------- bounds
NumThreads == 2          \* threads calling the manager
MaxCalls == 2            \* public operations started in one behaviour
MaxOutputs == 2          \* records accumulated from events by one execution

\* ------------------------------------------------------------- constants
overall_timeout_seconds == 300

None == 0
NoClient == [kid |-> None, open |-> FALSE]      \* self.kc = None
Threads == 1 .. NumThreads
MaxKernels == MaxCalls + 1
KernelIds == 1 .. MaxKernels

\* elapsed time is only compared with the ceiling: a coarse step reaches
\* exactly the ceiling (not yet a timeout) or passes it (a timeout)
Durations == {overall_timeout_seconds, overall_timeout_seconds + 1}
ElapsedCap == overall_timeout_seconds + 1
Min(a, b) == IF a < b THEN a ELSE b

SetMax(S) == IF S = {} THEN 0 ELSE CHOOSE x \in S : \A y \in S : y <= x

VARIABLES
  km,          \* self.km: id of the KernelManager object held
  kc,          \* self.kc: the client held, [kid, open]
  kernel_id,   \* self.kernel_id
  lock,        \* self._lock: the thread holding it, or None
  proc,        \* interpreter process of each KernelManager: new/alive/dead
  pending,     \* per interpreter: requests submitted and not yet idle
  nextKid,     \* next fresh kernel id (uuid)
  th,          \* per thread: position and locals of the running call
  hist,        \* per thread: facts observed about the running call
  returned,    \* the call completed by the last step: thread, value, facts
  heldIds,     \* every value self.kernel_id has held
  failedRestart, \* the last restart returned an error, none began since
  calls,       \* number of public operations started
  trial,       \* a function applied on its own: its input and its result
  dispatcher   \* main.py: the event loop of the HTTP server

vars == <<km, kc, kernel_id, lock, proc, pending, nextKid,
          th, hist, returned, heldIds, failedRestart, calls, trial,
          dispatcher>>

\* what the manager's own steps leave alone
aside == <<trial, dispatcher>>

shared == <<km, kc, kernel_id, lock, proc, pending, nextKid, heldIds>>

\* ------------------------------------------------------------ records

\* an output record; src tells where it comes from: "own" for an event of
\* the request's own submission, "other" for an event of another
\* submission, "synth" for a record synthesized by the manager
\* content is what the record carries besides its name: for an error
\* record the event's evalue and traceback
RecWith(type, name, content, src) ==
  [type |-> type, name |-> name, content |-> content, src |-> src]

Rec(type, name, src) == RecWith(type, name, {}, src)

TimeoutRecord == Rec("error", "TimeoutError", "synth")
ExecutionErrorRecord == Rec("error", "ExecutionError", "synth")
RestartedRecord == Rec("stream", "restarted_successfully", "synth")
ClearedNoteRecord == Rec("stream", "variables_cleared", "synth")

IdleLocals == [pc |-> "idle", op |-> "none", caller |-> "none",
               override_msg_id |-> None, msg_id |-> None,
               outputs |-> <<>>, status |-> "ok", elapsed |-> 0,
               res_outputs |-> <<>>, res_status |-> "ok", polls |-> 0]

Result(kind, status, outputs, id) ==
  [kind |-> kind, status |-> status, outputs |-> outputs, kernel_id |-> id]

NoResult == Result("none", "none", <<>>, None)

\* what is observed about a call (not state of the program):
\*   before      what get_status answered when the call began
\*   idsBefore   the session ids held until the call began
\*   afterFailed the last restart before the call had returned an error
\*   touched     the call stopped, shut down or replaced part of the handle
\*   raised      the client raised inside the call's execution protocol
\*   idle        the idle marker of the call's submission: "unsent" before
\*               the submission, then "none", "intime" or "late" (received
\*               after the ceiling)
\*   sentinel    the submission emitted the error KernelRestartRequest
\*   skipped     the loop discarded an event left by an earlier execution
\*   over        the loop ended more than the ceiling after the submission
\*   restart     what the restart made by the call returned
\*   prev        for get_status: what the get_status call made by the
\*               step just before answered, if that step was one
\*   failedAt    the step of the call's restart that raised
\*   created     the call's restart made a new KernelManager
\*   setup       the status of the result of the setup code run by the
\*               call's restart (line 55)
\*   handle      the interpreter of the client the user code was
\*               submitted to
\*   mixed       the loop polled the client of another interpreter than
\*               the one the user code was submitted to
NoHist == [before |-> NoResult, idsBefore |-> {}, afterFailed |-> FALSE,
           touched |-> FALSE, raised |-> FALSE, idle |-> "unsent",
           sentinel |-> FALSE, skipped |-> FALSE, over |-> FALSE,
           restart |-> "none", prev |-> NoResult,
           handle |-> None, mixed |-> FALSE,
           failedAt |-> "none", created |-> FALSE, setup |-> "none"]

NoReturn == [thread |-> None, value |-> NoResult, facts |-> NoHist]

\* ------------------------------------------------------ functions alone

\* the cell_id argument of execute_code: not supplied (None), or an int
NoCellId == [supplied |-> FALSE, id |-> 0]
CellId(n) == [supplied |-> TRUE, id |-> n]

\* the input of a function applied on its own: an event m met by an
\* execution whose status is `status`, or a number of figures shown, or
\* the arguments code and cell_id of execute_code
TrialInput(what, m, status, figures) ==
  [what |-> what, m |-> m, status |-> status, figures |-> figures,
   code |-> <<>>, cell_id |-> NoCellId]

NotApplied == [applied |-> FALSE, records |-> <<>>, status |-> "none",
               source |-> <<>>]

NoTrial == [input |-> TrialInput("none", [parent |-> None, msg_type |-> "none",
                                          name |-> "", data |-> {}], "ok", 0),
            output |-> NotApplied]

\* ------------------------------------------------------ main.py

\* the routes of main.py that call the kernel manager
Routes == {"/api/execute", "/api/restart_kernel", "/api/kernel_status"}

\* the event loop: the requests received and not yet handled, per route,
\* the route whose handler the loop is running, the last route answered
NoRequests == [waiting |-> [r \in Routes |-> 0], running |-> "none",
               answered |-> "none"]

\* ----------------------------------------------------------- interpreter

Msg(parent, type, name, data) ==
  [parent |-> parent, msg_type |-> type, name |-> name, data |-> data]

\* what a request of each kind can emit before its idle marker
EventsOf(r) ==
  IF r.errored THEN {}
  ELSE IF r.kind = "preamble" THEN {Msg(r.id, "status", "busy", {})}
  ELSE IF r.kind = "setup" THEN
    {Msg(r.id, "status", "busy", {}), Msg(r.id, "stream", "stdout", {}),
     Msg(r.id, "error", "ImportError", {})}
  ELSE
    {Msg(r.id, "status", "busy", {}), Msg(r.id, "stream", "stdout", {}),
     Msg(r.id, "execute_result", "", {"image/png", "text/plain"}),
     Msg(r.id, "display_data", "", {"image/png", "text/plain"}),
     Msg(r.id, "error", "ZeroDivisionError", {}),
     Msg(r.id, "error", "KernelRestartRequest", {})}

\* the events the client held in kc can receive next
Available ==
  IF kc # NoClient /\ kc.open /\ proc[kc.kid] = "alive" /\ pending[kc.kid] # <<>>
  THEN LET r == Head(pending[kc.kid])
       IN  EventsOf(r) \cup {Msg(r.id, "status", "idle", {})}
  ELSE {}

\* the interpreter's state after event m has been delivered
Delivered(m) ==
  LET k == kc.kid
      r == Head(pending[k])
  IN  IF m.msg_type = "status" /\ m.name = "idle"
        THEN [pending EXCEPT ![k] = Tail(@)]
      ELSE IF m.msg_type = "error"
        THEN [pending EXCEPT ![k] = <<[r EXCEPT !.errored = TRUE]>> \o Tail(@)]
      ELSE pending

\* msg ids are uuids: a new one differs from every id a comparison can
\* still meet, those of unanswered requests and those the threads hold
nextMsg ==
  1 + SetMax(UNION {{pending[k][i].id : i \in 1 .. Len(pending[k])} :
                      k \in KernelIds}
             \cup {th[t].msg_id : t \in Threads}
             \cup {th[t].override_msg_id : t \in Threads})

\* self.kc is unusable: no client, or its channels were stopped
Broken == kc = NoClient \/ ~kc.open

\* self.kc.execute(code): the request reaches a live interpreter
Submitted(kind) ==
  IF proc[kc.kid] = "alive"
  THEN [pending EXCEPT ![kc.kid] =
          Append(@, [id |-> nextMsg, kind |-> kind, errored |-> FALSE])]
  ELSE pending

\* ------------------------------------------------------- output classifier

_process_display_data_html_first(data) ==
  IF "text/html" \in data THEN <<"html">>
  ELSE IF "image/png" \in data THEN <<"image">>
  ELSE IF "text/plain" \in data THEN <<"text">>
  ELSE <<>>
\* lines 250-275: the type of the record made from a mime bag, if any
_process_display_data(data) ==
  IF "image/png" \in data THEN <<"image">>
  ELSE IF "text/html" \in data THEN <<"html">>
  ELSE IF "text/plain" \in data THEN <<"text">>
  ELSE <<>>

IsSentinelPrefix(error_name) ==
  error_name \in {"KernelRestartRequest", "KernelRestartRequestX"}
\* line 189: error_name == 'KernelRestartRequest'
IsSentinel(error_name) == error_name = "KernelRestartRequest"

\* the records appended for a matching event
Classify(m, src) ==
  IF m.msg_type = "stream" THEN <<Rec("stream", m.name, src)>>
  ELSE IF m.msg_type \in {"execute_result", "display_data"} THEN
    LET o == _process_display_data(m.data)
    IN  IF o = <<>> THEN <<>> ELSE <<Rec(o[1], "data", src)>>
  ELSE IF m.msg_type = "error" THEN
    IF IsSentinel(m.name) THEN <<Rec("stream", "restart_requested", src)>>
    ELSE <<RecWith("error", m.name, m.data, src)>>
  ELSE <<>>

\* the status after a matching event
StatusAfter(m, status) ==
  IF m.msg_type = "error"
  THEN IF IsSentinel(m.name) THEN "restart_needed" ELSE "error"
  ELSE status

IsIdle(m) == m.msg_type = "status" /\ m.name = "idle"

Prepended(outputs, records) == records \o outputs
\* outputs.append(...) (lines 167, 178, 183, 192, 198)
Appended(outputs, records) == outputs \o records

custom_show_png == Msg(None, "display_data", "", {"image/png", "text/plain"})
\* lines 82-100: the plt.show installed by the preamble saves the current
\* figure as base64 PNG and calls display(HTML('<img src="data:...">')):
\* one display_data event with a text/html entry (and the text/plain repr
\* of the HTML object), no image/png entry
custom_show == Msg(None, "display_data", "", {"text/html", "text/plain"})

\* a line of source text; n is the number formatted into it, if any
Line(text, n) == [text |-> text, n |-> n]

\* f"# Cell {cell_id}"
Marker(n) == Line("# Cell", n)

\* line 282: `if cell_id:` is false for None and for 0
Truthy(cell_id) == cell_id.supplied /\ cell_id.id # 0

\* lines 282-285: the source that execute_code submits
tracked_code(code, cell_id) ==
  IF Truthy(cell_id) THEN <<Marker(cell_id.id)>> \o code ELSE code

\* the records of an execution that shows n figures and nothing else
RECURSIVE Render(_)
Render(n) ==
  IF n = 0 THEN <<>>
  ELSE Appended(Render(n - 1), Classify(custom_show, "own"))

BelongsNoFilter(m, id) == TRUE
\* line 150: the event belongs to the submission id
Belongs(m, id) == m.parent = id

TimedOutAtCeiling(e) == e >= overall_timeout_seconds
\* time.time() - start_time > overall_timeout_seconds
TimedOut(e) == e > overall_timeout_seconds

CanAcquireNoLock(t) == TRUE
\* with self._lock: the lock is free
CanAcquire(t) == lock = None

\* ------------------------------------------------------------ get_status

\* lines 339-345: self.km and self.km.is_alive(); the probe itself is
\* taken not to raise (lines 346-347 would answer {status: error})
get_status ==
  IF km # None /\ proc[km] = "alive"
  THEN Result("status", "running", <<>>, kernel_id)
  ELSE Result("status", "stopped", <<>>, None)

\* ------------------------------------------------------------ Init

\* the state after the constructor (lines 18-23) has returned
Constructed ==
  /\ km = 1
  /\ kc = [kid |-> 1, open |-> TRUE]
  /\ kernel_id = 1
  /\ lock = None
  /\ proc = [k \in KernelIds |-> IF k = 1 THEN "alive" ELSE "none"]
  /\ pending = [k \in KernelIds |-> <<>>]
  /\ nextKid = 2
  /\ th = [t \in Threads |-> IdleLocals]
  /\ hist = [t \in Threads |-> NoHist]
  /\ returned = NoReturn
  /\ heldIds = {1}
  /\ failedRestart = FALSE
  /\ calls = 0

Init == Constructed /\ trial = NoTrial /\ dispatcher = NoRequests

\* --------------------------------------------------- end of a public call

\* no call completes in this step
Quiet == returned' = NoReturn

Local(t, r) == th' = [th EXCEPT ![t] = r]

\* the call of thread t returns r; h is what was observed about it
Complete(t, r, h) ==
  /\ Local(t, IdleLocals)
  /\ hist' = [hist EXCEPT ![t] = NoHist]
  /\ returned' = [thread |-> t, value |-> r, facts |-> h]

\* line 290: result.get('status') == 'restart_needed'
NeedsRestart(status) == status = "restart_needed"

FinalStatusSurfaced(status) == "error"
FinalStatusKept(status) == status
\* line 307: result['status'] = 'ok'
FinalStatus(status) == "ok"

\* restart_kernel returns outcome ("restarted" or "error") in thread t:
\* to the caller of restart_kernel, or to execute_code (lines 294-309),
\* which ignores the value returned
RestartReturnsWith(t, outcome, h) ==
  /\ failedRestart' = (outcome = "error")
  /\ IF th[t].op = "restart"
     THEN Complete(t, Result("restart", outcome, <<>>, None),
                   [h EXCEPT !.restart = outcome])
     ELSE Complete(t, Result("execute", FinalStatus(th[t].res_status),
                             th[t].res_outputs
                               \o <<RestartedRecord, ClearedNoteRecord>>, None),
                   [h EXCEPT !.restart = outcome])

RestartReturns(t, outcome) == RestartReturnsWith(t, outcome, hist[t])

UnlockLeak(t) == t
\* line 63: leaving the with block releases the lock
Unlock(t) == None

\* _execute_code_sync returns [outputs, status] in thread t (lines 233-248);
\* h is what was observed about the execution
Returns(t, outs, st, h) ==
  /\ lock' = Unlock(t)
  /\ IF th[t].caller = "init"
     THEN RestartReturnsWith(t, "restarted", [hist[t] EXCEPT !.setup = st])
     ELSE IF NeedsRestart(st)
     THEN /\ Local(t, [IdleLocals EXCEPT
                         !.pc = "stop_channels", !.op = "execute",
                         !.res_outputs = outs, !.res_status = st])
          /\ hist' = [hist EXCEPT ![t] = h]
          /\ failedRestart' = FALSE
          /\ Quiet
     ELSE /\ Complete(t, Result("execute", st, outs, None), h)
          /\ UNCHANGED failedRestart

ExceptEscapes(t) ==
  /\ lock' = Unlock(t)
  /\ Local(t, [IdleLocals EXCEPT !.pc = "escaped"])
  /\ Quiet
  /\ UNCHANGED <<hist, failedRestart>>
\* lines 238-248: an exception raised inside the protocol
Except(t) ==
  Returns(t, <<ExecutionErrorRecord>>, "error",
          [hist[t] EXCEPT !.raised = TRUE])

\* -------------------------------------------------------- public calls

\* threads are interchangeable: they make their first calls in thread order
MayCall(t) ==
  /\ th[t].pc = "idle"
  /\ calls < MaxCalls
  /\ t <= calls + 1

\* what is recorded when a call begins
Begin == [NoHist EXCEPT !.before = get_status, !.idsBefore = heldIds,
                        !.afterFailed = failedRestart]

CallExecute(t) ==
  /\ MayCall(t)
  /\ UNCHANGED aside
  /\ calls' = calls + 1
  /\ Local(t, [IdleLocals EXCEPT
                 !.pc = "acquire", !.op = "execute", !.caller = "execute"])
  /\ hist' = [hist EXCEPT ![t] = Begin]
  /\ Quiet
  /\ UNCHANGED <<shared, failedRestart>>

CallRestart(t) ==
  /\ MayCall(t)
  /\ UNCHANGED aside
  /\ calls' = calls + 1
  /\ Local(t, [IdleLocals EXCEPT !.pc = "stop_channels", !.op = "restart"])
  /\ hist' = [hist EXCEPT ![t] = Begin]
  /\ failedRestart' = FALSE
  /\ Quiet
  /\ UNCHANGED shared

\* what a get_status call observes: the answer of the call just before
BeginStatus ==
  [Begin EXCEPT !.prev = IF returned.value.kind = "status"
                         THEN returned.value ELSE NoResult]

CallGetStatusForgets(t) ==
  /\ MayCall(t)
  /\ UNCHANGED aside
  /\ calls' = calls + 1
  /\ returned' = [thread |-> t, value |-> get_status, facts |-> BeginStatus]
  /\ kernel_id' = None
  /\ UNCHANGED <<km, kc, lock, proc, pending, nextKid, heldIds,
                 th, hist, failedRestart>>
\* get_status (lines 336-347)
CallGetStatus(t) ==
  /\ MayCall(t)
  /\ UNCHANGED aside
  /\ calls' = calls + 1
  /\ returned' = [thread |-> t, value |-> get_status, facts |-> BeginStatus]
  /\ UNCHANGED <<shared, th, hist, failedRestart>>

\* ------------------------------------------- _execute_code_sync (61-248)

\* line 63: with self._lock
Acquire(t) ==
  /\ th[t].pc = "acquire"
  /\ UNCHANGED aside
  /\ CanAcquire(t)
  /\ lock' = t
  /\ Local(t, [th[t] EXCEPT !.pc = "drain"])
  /\ Quiet
  /\ UNCHANGED <<km, kc, kernel_id, proc, pending, nextKid, heldIds,
                 hist, failedRestart, calls>>

\* one more event was received by a loop that only discards events.  User
\* code can emit events without end (output printed in a loop), so the
\* events of a user request are counted, modulo 2, to tell the iterations
\* of the loop apart; the preamble and the setup code emit finitely many
Polls(t) ==
  IF Head(pending[kc.kid]).kind = "user"
  THEN [th[t] EXCEPT !.polls = 1 - @]
  ELSE th[t]

\* lines 66-70: clear any pending messages
Drain(t) ==
  /\ th[t].pc = "drain"
  /\ UNCHANGED aside
  /\ UNCHANGED <<km, kc, kernel_id, proc, nextKid, heldIds, calls>>
  /\ \/ /\ Broken
        /\ Except(t)
        /\ UNCHANGED pending
     \/ /\ \E m \in Available : pending' = Delivered(m)
        /\ Local(t, Polls(t))
        /\ Quiet
        /\ UNCHANGED <<lock, hist, failedRestart>>
     \/ /\ Local(t, [th[t] EXCEPT !.pc = "preamble", !.polls = 0])
        /\ Quiet
        /\ UNCHANGED <<lock, pending, hist, failedRestart>>

\* line 124: override_msg_id = self.kc.execute(setup_show_override)
Preamble(t) ==
  /\ th[t].pc = "preamble"
  /\ UNCHANGED aside
  /\ UNCHANGED <<km, kc, kernel_id, proc, nextKid, heldIds, calls>>
  /\ IF Broken
     THEN /\ Except(t)
          /\ UNCHANGED pending
     ELSE /\ pending' = Submitted("preamble")
          /\ Local(t, [th[t] EXCEPT !.pc = "wait_override",
                                    !.override_msg_id = nextMsg])
          /\ Quiet
          /\ UNCHANGED <<lock, hist, failedRestart>>

\* lines 127-133: wait for the override to complete
WaitOverride(t) ==
  /\ th[t].pc = "wait_override"
  /\ UNCHANGED aside
  /\ UNCHANGED <<km, kc, kernel_id, proc, nextKid, heldIds, calls>>
  /\ \/ /\ Broken
        /\ Except(t)
        /\ UNCHANGED pending
     \/ /\ \E m \in Available :
             /\ pending' = Delivered(m)
             /\ IF m.parent = th[t].override_msg_id /\ IsIdle(m)
                THEN Local(t, [th[t] EXCEPT !.pc = "submit", !.polls = 0])
                ELSE Local(t, Polls(t))
        /\ Quiet
        /\ UNCHANGED <<lock, hist, failedRestart>>
     \/ /\ Local(t, [th[t] EXCEPT !.pc = "submit", !.polls = 0])
        /\ Quiet
        /\ UNCHANGED <<lock, pending, hist, failedRestart>>

\* lines 136-143: msg_id = self.kc.execute(code); outputs, status, start_time
\* (override_msg_id is not read again and is forgotten)
Submit(t) ==
  /\ th[t].pc = "submit"
  /\ UNCHANGED aside
  /\ UNCHANGED <<km, kc, kernel_id, proc, nextKid, heldIds, calls>>
  /\ IF Broken
     THEN /\ Except(t)
          /\ UNCHANGED pending
     ELSE /\ pending' = Submitted(IF th[t].caller = "init" THEN "setup"
                                  ELSE "user")
          /\ Local(t, [th[t] EXCEPT !.pc = "loop", !.msg_id = nextMsg,
                         !.override_msg_id = None,
                         !.outputs = <<>>, !.status = "ok", !.elapsed = 0])
          /\ hist' = [hist EXCEPT ![t] =
                       IF th[t].caller = "execute"
                       THEN [@ EXCEPT !.idle = "none", !.handle = kc.kid]
                       ELSE @]
          /\ Quiet
          /\ UNCHANGED <<lock, failedRestart>>

\* what the user's execution observes (nothing for the setup code)
Seen(t, h) == IF th[t].caller = "execute" THEN h ELSE hist[t]

\* line 147: self.kc.get_iopub_msg polls the client held in self.kc now
Polled(t) ==
  [hist[t] EXCEPT !.mixed = hist[t].mixed \/ kc.kid # hist[t].handle]

\* the three timeout exits (lines 152-160, 211-219, 223-231)
TimeoutExit(t, outs, h, e) ==
  Returns(t, Append(outs, TimeoutRecord), "timeout",
          [h EXCEPT !.over = e > overall_timeout_seconds])

\* the loop goes on with the locals r
Continue(t, r, h) ==
  /\ Local(t, r)
  /\ hist' = [hist EXCEPT ![t] = Seen(t, h)]
  /\ Quiet
  /\ UNCHANGED <<lock, failedRestart>>

\* lines 147-219: one received event m, d seconds after the previous poll
OnMessage(t, m, d) ==
  LET e == Min(th[t].elapsed + d, ElapsedCap)
      own == m.parent = th[t].msg_id
      outs == Appended(th[t].outputs,
                       Classify(m, IF own THEN "own" ELSE "other"))
      st == StatusAfter(m, th[t].status)
      h == [Polled(t) EXCEPT
              !.sentinel = @ \/ (own /\ m.msg_type = "error"
                                     /\ IsSentinel(m.name))]
      skip == [Polled(t) EXCEPT
                 !.skipped = @ \/ Head(pending[kc.kid]).kind = "user"]
  IN  IF ~Belongs(m, th[t].msg_id)
      THEN IF TimedOut(e)
           THEN TimeoutExit(t, th[t].outputs, skip, e)
           ELSE Continue(t, [th[t] EXCEPT !.elapsed = e], skip)
      ELSE /\ Len(outs) <= MaxOutputs
           /\ IF IsIdle(m)
              THEN Returns(t, outs, st,
                     [h EXCEPT !.over = e > overall_timeout_seconds,
                               !.idle = IF e > overall_timeout_seconds
                                        THEN "late" ELSE "intime"])
              ELSE IF TimedOut(e)
              THEN TimeoutExit(t, outs, h, e)
              ELSE Continue(t, [th[t] EXCEPT !.elapsed = e, !.outputs = outs,
                                             !.status = st], h)

\* lines 221-231: queue.Empty after a poll of d seconds
OnEmpty(t, d) ==
  LET e == Min(th[t].elapsed + d, ElapsedCap)
  IN  IF TimedOut(e)
      THEN TimeoutExit(t, th[t].outputs, Polled(t), e)
      ELSE Continue(t, [th[t] EXCEPT !.elapsed = e], Polled(t))

\* lines 145-231: one iteration of the event-drain loop
Loop(t) ==
  /\ th[t].pc = "loop"
  /\ UNCHANGED aside
  /\ UNCHANGED <<km, kc, kernel_id, proc, nextKid, heldIds, calls>>
  /\ \/ /\ Broken
        /\ Except(t)
        /\ UNCHANGED pending
     \/ \E m \in Available : \E d \in {0} \cup Durations :
          /\ pending' = Delivered(m)
          /\ OnMessage(t, m, d)
     \/ /\ \E d \in Durations : OnEmpty(t, d)
        /\ UNCHANGED pending

\* ------------------------------------------------ restart_kernel (313-334)

\* thread t takes a step of a restart that changes the handle
StepFacts(t, next, h) ==
  /\ Local(t, [th[t] EXCEPT !.pc = next])
  /\ hist' = [hist EXCEPT ![t] = h]
  /\ Quiet
  /\ UNCHANGED <<lock, failedRestart, calls>>

Step(t, next) == StepFacts(t, next, [hist[t] EXCEPT !.touched = TRUE])

\* the step at th[t].pc raised
Raised(t) == [hist[t] EXCEPT !.failedAt = th[t].pc]

RestartFailsIgnored(t) ==
  IF th[t].pc \in {"stop_channels", "shutdown_kernel"}
  THEN /\ StepFacts(t, IF th[t].pc = "stop_channels" THEN "shutdown_kernel"
                       ELSE "new_km", Raised(t))
       /\ UNCHANGED shared
  ELSE /\ RestartReturnsWith(t, "error", Raised(t))
       /\ UNCHANGED <<shared, calls>>
\* lines 332-334: except Exception -> {"status": "error"}
RestartFails(t) ==
  /\ RestartReturnsWith(t, "error", Raised(t))
  /\ UNCHANGED <<shared, calls>>

\* lines 319-320: if self.kc: self.kc.stop_channels()
StopChannels(t) ==
  /\ th[t].pc = "stop_channels"
  /\ UNCHANGED aside
  /\ \/ /\ kc' = IF kc # NoClient THEN [kc EXCEPT !.open = FALSE] ELSE kc
        /\ Step(t, "shutdown_kernel")
        /\ UNCHANGED <<km, kernel_id, proc, pending, nextKid, heldIds>>
     \/ /\ kc # NoClient
        /\ RestartFails(t)

\* lines 321-322: if self.km: self.km.shutdown_kernel()
ShutdownKernel(t) ==
  /\ th[t].pc = "shutdown_kernel"
  /\ UNCHANGED aside
  /\ \/ /\ proc' = IF km # None /\ proc[km] = "alive"
                   THEN [proc EXCEPT ![km] = "dead"] ELSE proc
        /\ pending' = IF km # None THEN [pending EXCEPT ![km] = <<>>]
                      ELSE pending
        /\ Step(t, "new_km")
        /\ UNCHANGED <<km, kc, kernel_id, nextKid, heldIds>>
     \/ /\ km # None
        /\ RestartFails(t)

\* ---------------------------------------------- _initialize_kernel (25-59)

\* line 31: self.km = KernelManager(kernel_name='python3')
NewKernelManager(t) ==
  /\ th[t].pc = "new_km"
  /\ UNCHANGED aside
  /\ km' = nextKid
  /\ nextKid' = nextKid + 1
  /\ proc' = [proc EXCEPT ![nextKid] = "new"]
  /\ StepFacts(t, "start_kernel",
               [hist[t] EXCEPT !.touched = TRUE, !.created = TRUE])
  /\ UNCHANGED <<kc, kernel_id, pending, heldIds>>

\* line 32: self.km.start_kernel()
StartKernel(t) ==
  /\ th[t].pc = "start_kernel"
  /\ UNCHANGED aside
  /\ \/ /\ proc' = [proc EXCEPT ![km] = "alive"]
        /\ Step(t, "client")
        /\ UNCHANGED <<km, kc, kernel_id, pending, nextKid, heldIds>>
     \/ RestartFails(t)

\* lines 35-36: self.kc = self.km.client(); self.kc.start_channels()
Client(t) ==
  /\ th[t].pc = "client"
  /\ UNCHANGED aside
  /\ kc' = [kid |-> km, open |-> TRUE]
  /\ Step(t, "wait_for_ready")
  /\ UNCHANGED <<km, kernel_id, proc, pending, nextKid, heldIds>>

\* line 39: self.kc.wait_for_ready(timeout=30)
WaitForReady(t) ==
  /\ th[t].pc = "wait_for_ready"
  /\ UNCHANGED aside
  /\ \/ /\ ~Broken
        /\ proc[kc.kid] = "alive"
        /\ Local(t, [th[t] EXCEPT !.pc = "set_kernel_id"])
        /\ Quiet
        /\ UNCHANGED <<shared, hist, failedRestart, calls>>
     \/ RestartFails(t)

kernel_id_stale == kernel_id
\* line 41: self.km.kernel_id
km_kernel_id == km

\* lines 41-55: self.kernel_id = self.km.kernel_id, then the setup code
SetKernelId(t) ==
  /\ th[t].pc = "set_kernel_id"
  /\ UNCHANGED aside
  /\ kernel_id' = km_kernel_id
  /\ heldIds' = heldIds \cup {km_kernel_id}
  /\ Local(t, [th[t] EXCEPT !.pc = "acquire", !.caller = "init"])
  /\ hist' = [hist EXCEPT ![t] = [@ EXCEPT !.touched = TRUE]]
  /\ Quiet
  /\ UNCHANGED <<km, kc, lock, proc, pending, nextKid, failedRestart, calls>>

\* ------------------------------------------------ the functions on their own

MaxFigures == 2          \* figures shown by one execution
MaxCellId == 2           \* largest cell_id passed to execute_code

Codes == {<<>>, <<Line("x = 1", 0)>>, <<Marker(1), Line("x = 1", 0)>>}
CellIds == {NoCellId} \cup {CellId(n) : n \in 0 .. MaxCellId}

MimeTypes == {"image/png", "text/html", "text/plain", "application/json"}
ErrorNames == {"KernelRestartRequest", "kernelrestartrequest",
               "KernelRestartRequestX", "ZeroDivisionError"}
\* evalue and traceback of an error event
ErrorValues == {{"KernelRestartRequest"}, {"division by zero"}}
StatusesInLoop == {"ok", "error", "restart_needed"}

TrialEvents ==
  {Msg(1, ty, "", d) : ty \in {"execute_result", "display_data"},
                       d \in SUBSET MimeTypes}
  \cup {Msg(1, "error", n, v) : n \in ErrorNames, v \in ErrorValues}
  \cup {Msg(1, "stream", "stdout", {}), Msg(1, "status", "busy", {}),
        Msg(1, "status", "idle", {})}

TrialInputs ==
  {TrialInput("event", m, st, 0) : m \in TrialEvents, st \in StatusesInLoop}
  \cup {TrialInput("figures", NoTrial.input.m, "ok", n) : n \in 0 .. MaxFigures}
  \cup {[TrialInput("code", NoTrial.input.m, "ok", 0)
           EXCEPT !.code = c, !.cell_id = i] : c \in Codes, i \in CellIds}

InitTrial ==
  /\ Constructed
  /\ dispatcher = NoRequests
  /\ trial \in {[input |-> i, output |-> NotApplied] : i \in TrialInputs}

\* lines 164-208: what the loop does with one event of its own submission
ClassifyEvent ==
  /\ trial.input.what = "event"
  /\ ~trial.output.applied
  /\ trial' = [trial EXCEPT !.output =
                 [applied |-> TRUE,
                  records |-> Appended(<<>>, Classify(trial.input.m, "own")),
                  status |-> StatusAfter(trial.input.m, trial.input.status),
                  source |-> <<>>]]
  /\ UNCHANGED <<shared, th, hist, returned, failedRestart, calls,
                 dispatcher>>

\* lines 82-100 and 173-183: code that shows trial.input.figures figures
ShowFigures ==
  /\ trial.input.what = "figures"
  /\ ~trial.output.applied
  /\ trial' = [trial EXCEPT !.output =
                 [applied |-> TRUE,
                  records |-> Render(trial.input.figures),
                  status |-> trial.input.status,
                  source |-> <<>>]]
  /\ UNCHANGED <<shared, th, hist, returned, failedRestart, calls,
                 dispatcher>>

\* lines 277-287: the source handed to _execute_code_sync
TrackCode ==
  /\ trial.input.what = "code"
  /\ ~trial.output.applied
  /\ trial' = [trial EXCEPT !.output =
                 [applied |-> TRUE,
                  records |-> <<>>,
                  status |-> trial.input.status,
                  source |-> tracked_code(trial.input.code,
                                          trial.input.cell_id)]]
  /\ UNCHANGED <<shared, th, hist, returned, failedRestart, calls,
                 dispatcher>>

NextTrial == ClassifyEvent \/ ShowFigures \/ TrackCode

SpecTrial == InitTrial /\ [][NextTrial]_vars

\* ------------------------------------------------ the HTTP server (main.py)

MaxWaiting == 2          \* requests of one route waiting for the event loop

\* a client sends a request for route r
Arrive(r) ==
  /\ dispatcher.waiting[r] < MaxWaiting
  /\ dispatcher' = [dispatcher EXCEPT !.waiting[r] = @ + 1]
  /\ UNCHANGED <<shared, th, hist, returned, failedRestart, calls, trial>>

\* the event loop starts the handler of a waiting request of route r.  The
\* handlers are coroutines (async def, main.py lines 140, 167, 177) that
\* call the manager directly, without await: the loop can start a handler
\* only when it runs no other one
Dispatch(r) ==
  /\ dispatcher.running = "none"
  /\ dispatcher.waiting[r] > 0
  /\ dispatcher' = [dispatcher EXCEPT !.waiting[r] = @ - 1, !.running = r]
  /\ UNCHANGED <<shared, th, hist, returned, failedRestart, calls, trial>>

\* the manager's call returns (main.py lines 148, 171, 181) and the handler
\* answers: the event loop is free again
Answer ==
  /\ dispatcher.running # "none"
  /\ dispatcher' = [dispatcher EXCEPT !.running = "none",
                                      !.answered = dispatcher.running]
  /\ UNCHANGED <<shared, th, hist, returned, failedRestart, calls, trial>>

NextDispatch ==
  \/ \E r \in Routes : Arrive(r)
  \/ \E r \in Routes : Dispatch(r)
  \/ Answer

SpecDispatch == Init /\ [][NextDispatch]_vars

\* ------------------------------------------------------------ specification

Next ==
  \E t \in Threads :
    \/ CallExecute(t)
    \/ CallRestart(t)
    \/ CallGetStatus(t)
    \/ Acquire(t)
    \/ Drain(t)
    \/ Preamble(t)
    \/ WaitOverride(t)
    \/ Submit(t)
    \/ Loop(t)
    \/ StopChannels(t)
    \/ ShutdownKernel(t)
    \/ NewKernelManager(t)
    \/ StartKernel(t)
    \/ Client(t)
    \/ WaitForReady(t)
    \/ SetKernelId(t)

Spec == Init /\ [][Next]_vars

\* a step of the call that thread t is running
Run(t) ==
  \/ Acquire(t)
  \/ Drain(t)
  \/ Preamble(t)
  \/ WaitOverride(t)
  \/ Submit(t)
  \/ Loop(t)
  \/ StopChannels(t)
  \/ ShutdownKernel(t)
  \/ NewKernelManager(t)
  \/ StartKernel(t)
  \/ Client(t)
  \/ WaitForReady(t)
  \/ SetKernelId(t)

\* the scheduler runs every thread that can take a step: a thread inside a
\* call goes on unless it waits for the lock.  Nothing is assumed about
\* what the interpreter emits, nor about which waiting thread gets the lock
Fairness == \A t \in Threads : WF_vars(Run(t))

SpecFair == Init /\ [][Next]_vars /\ Fairness

TypeOK ==
  /\ km \in KernelIds
  /\ kernel_id \in KernelIds
  /\ lock \in Threads \cup {None}
  /\ \A t \in Threads : Len(th[t].outputs) <= MaxOutputs

\* ------------------------------------------------------------ properties

ProtocolSteps == {"drain", "preamble", "wait_override", "submit", "loop"}
InProtocol(t) == th[t].pc \in ProtocolSteps

Ret == returned.value
Facts == returned.facts
ExecuteReturned == Ret.kind = "execute"

Last(seq) == seq[Len(seq)]
Count(seq, x) == Cardinality({i \in 1 .. Len(seq) : seq[i] = x})

\* C1: at most one thread is inside the execution protocol of
\* _execute_code_sync at any instant, and that thread holds the lock
C1_MutualExclusion ==
  \A t \in Threads :
    InProtocol(t) => /\ lock = t
                     /\ \A u \in Threads : InProtocol(u) => u = t

\* a second request waits on the lock while the first one drains its events
C1_Witness ==
  \E t, u \in Threads :
    /\ th[t].pc = "loop" /\ th[t].caller = "execute"
    /\ th[u].pc = "acquire" /\ th[u].caller = "execute"

\* C2: every record of an execution's outputs that is not synthesized
\* derives from an event of the request's own submission, never from an
\* event of an earlier execution, of the preamble or of another request
C2_OwnEventsOnly ==
  /\ \A t \in Threads : \A i \in 1 .. Len(th[t].outputs) :
       th[t].outputs[i].src = "own"
  /\ ExecuteReturned =>
       \A i \in 1 .. Len(Ret.outputs) : Ret.outputs[i].src \in {"own", "synth"}

\* an execution returns its own records after its loop discarded an event
\* left by an earlier execution
C2_Witness ==
  /\ ExecuteReturned
  /\ Facts.skipped
  /\ Len(Ret.outputs) > 0
  /\ Ret.outputs[1].src = "own"

\* C3: an execute_code call whose submission emitted KernelRestartRequest
\* (and whose idle marker was received in time) returns status ok, its last
\* two records are the notices about the restart, and get_status then
\* reports a session_id different from the one it reported before the call
C3_RestartOnExit ==
  (ExecuteReturned /\ Facts.sentinel /\ Facts.idle = "intime") =>
    /\ Ret.status = "ok"
    /\ Len(Ret.outputs) >= 2
    /\ Ret.outputs[Len(Ret.outputs) - 1] = RestartedRecord
    /\ Last(Ret.outputs) = ClearedNoteRecord
    /\ get_status.status = "running"
    /\ get_status.kernel_id # Facts.before.kernel_id

\* C4: no exception escapes a public operation, and an exception raised by
\* the client inside the protocol gives a result with status error whose
\* outputs are exactly one error record named ExecutionError
C4_NoEscape ==
  /\ \A t \in Threads : th[t].pc # "escaped"
  /\ Ret.kind \in {"none", "execute", "restart", "status"}
  /\ (ExecuteReturned /\ Facts.raised) =>
       /\ Ret.status = "error"
       /\ Ret.outputs = <<ExecutionErrorRecord>>

\* the client raised inside an execution and the call returned
C4_Witness == ExecuteReturned /\ Facts.raised

\* C5: the status returned by execute_code is ok, error or timeout, never
\* restart_needed
C5_StatusDomain ==
  ExecuteReturned => Ret.status \in {"ok", "error", "timeout"}

\* an execution that ended restart_needed returns after its restart
C5_Witness ==
  ExecuteReturned /\ Facts.sentinel /\ Facts.restart # "none"

\* C6 as stated: an execution whose submission's idle marker does not
\* arrive within the ceiling ends with status timeout and exactly one
\* synthesized TimeoutError record, the last one
C6_Original ==
  (ExecuteReturned /\ Facts.idle \in {"none", "late"}) =>
    /\ Ret.status = "timeout"
    /\ Count(Ret.outputs, TimeoutRecord) = 1
    /\ Last(Ret.outputs) = TimeoutRecord

\* C6 amended: an execution whose loop ends without having received the
\* submission's idle marker and without an exception of the client ends
\* more than the ceiling after the submission, with status timeout and
\* exactly one synthesized TimeoutError record, the last one; no other
\* execution ends with status timeout
C6_Timeout ==
  ExecuteReturned =>
    /\ (Facts.idle = "none" /\ ~Facts.raised) <=> Ret.status = "timeout"
    /\ Ret.status = "timeout" =>
         /\ Facts.over
         /\ Count(Ret.outputs, TimeoutRecord) = 1
         /\ Last(Ret.outputs) = TimeoutRecord

\* an execution times out after records of its own events were collected
C6_Witness ==
  /\ ExecuteReturned
  /\ Ret.status = "timeout"
  /\ Len(Ret.outputs) > 1

\* C7: a restart_kernel call that returns restarted leaves a session_id
\* different from every session_id held before the call
C7_FreshSessionId ==
  (Ret.kind = "restart" /\ Ret.status = "restarted") =>
    kernel_id \notin Facts.idsBefore

\* the second of two successful restarts returns
C7_Witness ==
  /\ Ret.kind = "restart"
  /\ Ret.status = "restarted"
  /\ Cardinality(Facts.idsBefore) >= 2

\* C8: after a restart_kernel call returned an error, get_status does not
\* answer running
C8_NotRunningAfterFailedRestart ==
  (Ret.kind = "status" /\ Facts.afterFailed) => Ret.status # "running"

\* C9: the channels are stopped, the process is shut down or started and
\* the handle (km, kc) is replaced only while no execution holds the lock
C9_RestartExcludesExecution ==
  [][(km' # km \/ kc' # kc \/ proc' # proc) => lock = None]_vars

\* C10: an execute_code call that returns error or timeout has not stopped,
\* shut down or replaced any part of the handle, nor changed the
\* session_id, and does not hold the lock
C10_FailureKeepsHandle ==
  (ExecuteReturned /\ Ret.status \in {"error", "timeout"}) =>
    /\ ~Facts.touched
    /\ Facts.restart = "none"
    /\ lock # returned.thread

\* an execution returns error after an error event of its own submission,
\* with the interpreter it started with
C10_Witness ==
  /\ ExecuteReturned
  /\ Ret.status = "error"
  /\ ~Facts.raised
  /\ get_status = Facts.before

\* C11: get_status changes no field of the manager, and a get_status call
\* that directly follows another one (no step of an execution or of a
\* restart in between) gives the same answer: with a live interpreter, the
\* same {status: running, kernel_id}
C11_StatusIsStable ==
  [][returned'.value.kind = "status" =>
       /\ UNCHANGED <<km, kc, kernel_id, lock, proc, pending>>
       /\ returned'.facts.prev.kind = "status" =>
            returned'.value = returned'.facts.prev]_vars

\* two get_status calls in a row on a live interpreter
C11_Witness ==
  /\ Ret.kind = "status" /\ Ret.status = "running"
  /\ Facts.prev.kind = "status"
  /\ km # None /\ proc[km] = "alive"

Types(records) == {records[i].type : i \in 1 .. Len(records)}

\* C12: an execute_result or display_data event appends at most one record:
\* an image record if the bag has image/png, else an html record if it has
\* text/html, else a text record if it has text/plain, else nothing
C12_ClassifierPriority ==
  (/\ trial.output.applied
   /\ trial.input.m.msg_type \in {"execute_result", "display_data"}) =>
    LET d == trial.input.m.data
        recs == trial.output.records
    IN  /\ Len(recs) <= 1
        /\ "image/png" \in d => Types(recs) = {"image"}
        /\ ("image/png" \notin d /\ "text/html" \in d) =>
             Types(recs) = {"html"}
        /\ ({"image/png", "text/html"} \cap d = {} /\ "text/plain" \in d) =>
             Types(recs) = {"text"}
        /\ {"image/png", "text/html", "text/plain"} \cap d = {} =>
             recs = <<>>

\* a bag holding the three formats gives the image record
C12_Witness ==
  /\ trial.output.applied
  /\ trial.input.m.msg_type = "display_data"
  /\ {"image/png", "text/html", "text/plain"} \subseteq trial.input.m.data
  /\ Types(trial.output.records) = {"image"}

\* C13: an error event whose name is exactly KernelRestartRequest makes
\* the status restart_needed and appends one stream record, no error
\* record; any other error event appends one error record carrying the
\* event's name, value and traceback and makes the status error.  Only the
\* name is compared, and exactly
C13_ErrorClassification ==
  (trial.output.applied /\ trial.input.m.msg_type = "error") =>
    LET m == trial.input.m
        recs == trial.output.records
    IN  /\ Len(recs) = 1
        /\ IF m.name = "KernelRestartRequest"
           THEN /\ trial.output.status = "restart_needed"
                /\ recs[1].type = "stream"
           ELSE /\ trial.output.status = "error"
                /\ recs[1].type = "error"
                /\ recs[1].name = m.name
                /\ recs[1].content = m.data

\* an error whose name only begins with the sentinel, and whose value
\* holds the sentinel, is an ordinary error
C13_Witness ==
  /\ trial.output.applied
  /\ trial.input.m.msg_type = "error"
  /\ trial.input.m.name = "KernelRestartRequestX"
  /\ "KernelRestartRequest" \in trial.input.m.data
  /\ trial.output.status = "error"

IsPrefix(a, b) == Len(a) <= Len(b) /\ a = SubSeq(b, 1, Len(a))

\* no record derived from an event stands after a synthesized record
EventsFirst(records) ==
  \A i, j \in 1 .. Len(records) :
    (records[i].src = "synth" /\ i < j) => records[j].src = "synth"

CountType(records, type) ==
  Cardinality({i \in 1 .. Len(records) : records[i].type = type})

C16_OneHandlePerExecution ==
  /\ \A t \in Threads : ~hist[t].mixed
  /\ ~Facts.mixed

\* C17: the loop stops when the error KernelRestartRequest of its own
\* submission has been classified: no iteration begins with the status
\* restart_needed, and an execution that classified it (and whose client
\* did not raise) ends as restart_needed, so that execute_code restarts
\* the interpreter and returns ok; the status is not overwritten by timeout
C17_StopsAtRestartNeeded ==
  /\ \A t \in Threads :
       th[t].pc = "loop" => th[t].status # "restart_needed"
  /\ (ExecuteReturned /\ Facts.sentinel /\ ~Facts.raised) =>
       (Ret.status = "ok" /\ Facts.restart # "none")

OldHandleSteps == {"stop_channels", "shutdown_kernel"}

\* C18 as stated: when stopping the old channels or shutting down the old
\* process fails, the restart still makes a new handle and returns
\* restarted
C18_Original ==
  Facts.failedAt \in OldHandleSteps =>
    (Facts.restart = "restarted" /\ Facts.created)

\* C18: when stopping the old channels or shutting down the old process
\* raises, the restart is abandoned: no new KernelManager is made, and
\* restart_kernel returns {status: error}
C18_OldHandleFailureAborts ==
  Facts.failedAt \in OldHandleSteps =>
    /\ Facts.restart = "error"
    /\ ~Facts.created
    /\ Ret.kind = "restart" => Ret.status = "error"

\* restart_kernel returned after shutdown_kernel raised
C18_Witness ==
  /\ Ret.kind = "restart"
  /\ Facts.failedAt = "shutdown_kernel"
  /\ Ret.status = "error"

\* C19: when the setup code run by _initialize_kernel fails (its result
\* has status error or timeout, which includes an exception of the
\* client), the start fails: restart_kernel returns {status: error}
C19_SetupFailurePropagates ==
  Facts.setup \in {"error", "timeout"} =>
    /\ Facts.restart = "error"
    /\ Ret.kind = "restart" => Ret.status = "error"

\* C20: the lock is held only by a thread that is inside
\* _execute_code_sync: when the function has returned, with any status or
\* after an exception inside the protocol, the thread no longer holds the
\* lock, and once no execution is under way the lock is free
C20_LockReleased ==
  /\ \A t \in Threads : lock = t => InProtocol(t)
  /\ (\A t \in Threads : ~InProtocol(t)) => lock = None
  /\ returned.thread # None => lock # returned.thread

\* an execution in which the client raised has returned, the lock is free
C20_Witness ==
  /\ ExecuteReturned
  /\ Facts.raised
  /\ Ret.status = "error"
  /\ lock = None

Prelude == {"drain", "preamble", "wait_override", "submit"}

\* C21: an execution that has begun the stale drain eventually gets past
\* the submission of the caller's source (or ends with an exception of the
\* client): neither the stale drain nor the wait for the preamble's idle
\* marker goes on for ever
C21_EventuallySubmitted ==
  \A t \in Threads : (th[t].pc \in Prelude) ~> (th[t].pc \notin Prelude)

\* C22: a restart made while an execution is in its event loop severs that
\* execution: the execution whose client was replaced under it ends at
\* once, it does not go on polling until its own ceiling and end with
\* status timeout
C22_RestartSevers ==
  (ExecuteReturned /\ Facts.mixed) => Ret.status # "timeout"

\* C23: while the handler of /api/execute is running (its execution is in
\* flight against the interpreter), the event loop can start the handler
\* of a waiting /api/kernel_status request
C23_DispatcherNotBlocked ==
  (/\ dispatcher.running = "/api/execute"
   /\ dispatcher.waiting["/api/kernel_status"] > 0) =>
    ENABLED Dispatch("/api/kernel_status")

\* C24: with a cell_id supplied, 0 included, the source submitted is the
\* caller's source preceded by the line "# Cell <id>"; with no cell_id it
\* is the caller's source unchanged
C24_CellMarker ==
  (trial.output.applied /\ trial.input.what = "code") =>
    trial.output.source =
      IF trial.input.cell_id.supplied
      THEN <<Marker(trial.input.cell_id.id)>> \o trial.input.code
      ELSE trial.input.code

\* thread t is in the restart that execute_code makes after restart_needed
InImplicitRestart(t) == th[t].op = "execute" /\ th[t].caller # "execute"

\* C25: the restart made by execute_code begins with the lock released by
\* its own execution, and every execute_code call that begins such a
\* restart eventually returns
C25_ImplicitRestartReturns ==
  /\ [](\A t \in Threads :
          (InImplicitRestart(t) /\ th[t].pc = "stop_channels") => lock # t)
  /\ \A t \in Threads : InImplicitRestart(t) ~> (th[t].pc = "idle")

\* C26: the result of execute_code holds the record saying that the kernel
\* has been restarted successfully, with the status rewritten to ok, only
\* if the restart_kernel call it made returned restarted
C26_NoticeOnlyAfterRestart ==
  (ExecuteReturned /\ Count(Ret.outputs, RestartedRecord) > 0) =>
    Facts.restart = "restarted"

\* C27: a get_status answer {status: running, kernel_id} names the
\* interpreter that the manager holds in self.km at that moment, also in
\* the middle of a restart made by another thread
C27_StatusNamesHeldInterpreter ==
  (Ret.kind = "status" /\ Ret.status = "running") => Ret.kernel_id = km

====
